---- MODULE Spec2Model ----
(***************************************************************************)
(* Traffic-pattern inference engine of the TSN verification tools:         *)
(*   - CBS path: packet_handler -> detect_bursts -> analyze_cbs            *)
(*     (src/server/cbs-estimator.c and src/server/tsn-verify.c)            *)
(*   - TAS path: detect_windows -> build_gcl (src/server/tas-estimator.c)  *)
(*                                                                         *)
(* Arithmetic.  The code's uint64_t nanosecond values are integers here;   *)
(* an unsigned subtraction is Sub64, which wraps.  Integers are evaluated  *)
(* in 32 bits, so the wrap modulus UINT64_MOD is 2^30 instead of 2^64,     *)
(* and every timestamp of the model lies below it: a wrapped               *)
(* difference is then, as in the code, far above any threshold.  The       *)
(* uint32_t time_ns of a GCL entry wraps at UINT32_MOD, 2^24 instead of    *)
(* 2^32, which is above every cycle length the scenarios use.  The         *)
(* code's doubles are exact rationals here (a quotient is kept as its      *)
(* numerator and denominator and compared by cross-multiplication).        *)
(***************************************************************************)
EXTENDS Integers, Sequences, FiniteSets, TLC

\* ------------------------------------------------------------ constants
MAX_TC == 8
MAX_BURSTS_CBS == 10000
MAX_BURSTS_TSN == 5000
BURST_GAP_THRESHOLD_US == 500
MAX_GCL_ENTRIES == 64
MAX_WINDOWS == 16
DISPATCH_CNT == 100
MAX_PACKETS_CBS == 100000
MAX_PACKETS_TAS == 200000
MAX_PACKETS_SIMPLE == 50000
CYCLE_BINS_TAS == 100
CYCLE_MIN_PACKETS_TAS == 100
CYCLE_BINS_TSN == 50
CYCLE_MIN_PACKETS_TSN == 50

\* ------------------------------------------------------------ bounds
UINT64_MOD == 1073741824
UINT32_MOD == 16777216
MaxObs == 4
Scenario1Count == 1000
Scenario2BurstLen == 10
Scenario2MinBursts == 4
CapOverrun == 2
HISTOGRAM_BINS == 4
TasClasses == 2
GclClasses == 2
GclMaxCycle == 3
GclMaxWin == 2
MaxTx == 1
Scenario3Periods == 200
MaxLate == 3
MaxSends == 2
MaxFrames == 2
ThreadClasses == 2
CombRuns == 17

VARIABLES
    impl,           \* which program runs the CBS path
    pending,        \* captured frames not yet delivered to the callback
    tc,             \* the tc_analysis_t / tc_data_t of the class captured
    cbs_pc,         \* position of main on the CBS path
    cycle_ns,       \* estimated_cycle_ns handed to the TAS path
    tc_data,        \* the tc_data_t array of tas-estimator
    estimated_gcl,  \* estimated_gcl[0 .. estimated_gcl_size-1]
    tas_t,          \* loop index t of main's window loop
    tas_pc,         \* position of main on the TAS path
    config,         \* the command line: json_output, expected_cycle_ms
    report,         \* the rows of the CBS result table printed so far
    running,        \* volatile int running
    data_mutex,     \* the thread that holds data_mutex, or "free"
    rx_handle,      \* rx_handle: "null", "open" or "closed"
    main_pc,        \* position of main in tsn-verify / tsn-verify-simple
    tx_pc,          \* position of tx_thread
    rx_pc,          \* position of rx_thread
    tx_idx,         \* tc_idx of tx_thread
    rx_hdr,         \* the frame rx_callback is working on
    hist            \* history: send() calls, frames delivered, per class counts,
                    \* the states of the handles given to pcap_breakloop

cbs_vars == <<impl, pending, tc, cbs_pc, report>>
tas_vars == <<cycle_ns, tc_data, estimated_gcl, tas_t, tas_pc>>
thr_vars == <<running, data_mutex, rx_handle, main_pc, tx_pc, rx_pc, tx_idx, rx_hdr, hist>>
vars == <<impl, pending, tc, cbs_pc, cycle_ns, tc_data, estimated_gcl, tas_t, tas_pc,
          config, report, running, data_mutex, rx_handle, main_pc, tx_pc, rx_pc,
          tx_idx, rx_hdr, hist>>

Impls == {"cbs-estimator", "tsn-verify"}

\* ------------------------------------------------------------ helpers
\* a - b on uint64_t
Sub64(a, b) == IF a >= b THEN a - b ELSE UINT64_MOD - (b - a)

\* sum of f[lo..hi], by halving (no deep recursion on long sequences)
RECURSIVE SumRange(_, _, _)
SumRange(f, lo, hi) ==
    IF lo > hi THEN 0
    ELSE IF lo = hi THEN f[lo]
    ELSE LET mid == (lo + hi) \div 2
         IN SumRange(f, lo, mid) + SumRange(f, mid + 1, hi)

SumSeq(f) == SumRange(f, 1, Len(f))

\* ------------------------------------------------------------ CBS path
\* hdr->ts converted to nanoseconds
TsNs(hdr) == hdr.tv_sec * 1000000000 + hdr.tv_usec * 1000

MaxBursts == IF impl = "cbs-estimator" THEN MAX_BURSTS_CBS ELSE MAX_BURSTS_TSN

\* a rational kept as numerator and denominator
Rat(n, d) == [num |-> n, den |-> d]
RatZero == Rat(0, 1)
RatLess(a, b) == a.num * b.den < b.num * a.den

\* memset(tc_data, 0, sizeof(tc_data))
EmptyTc ==
    [packets |-> <<>>, packet_count |-> 0,
     bursts |-> <<>>, burst_count |-> 0,
     total_bytes |-> 0, first_ts |-> 0, last_ts |-> 0,
     measured_bps |-> RatZero, estimated_idle_slope |-> RatZero,
     burst_ratio |-> RatZero, is_shaped |-> FALSE,
     avg_gap_duration_us |-> RatZero, max_burst_bytes |-> 0,
     tx_count |-> 0, analyzed |-> FALSE]

\* the frames a short capture may deliver: gaps of exactly the threshold
\* (1 -> 501), just above it (1 -> 502), small ones, and backward steps
InputObs ==
    { [tv_sec |-> 0, tv_usec |-> 1, len |-> 64],
      [tv_sec |-> 0, tv_usec |-> 501, len |-> 128],
      [tv_sec |-> 0, tv_usec |-> 502, len |-> 64],
      [tv_sec |-> 0, tv_usec |-> 1003, len |-> 128] }

RECURSIVE SeqsUpTo(_, _)
SeqsUpTo(S, n) ==
    IF n = 0 THEN {<<>>}
    ELSE LET shorter == SeqsUpTo(S, n - 1)
         IN shorter \cup {Append(s, x) : s \in {q \in shorter : Len(q) = n - 1}, x \in S}

\* n frames at a uniform spacing
Scenario1(n, spacing_us) ==
    [k \in 1..n |-> [tv_sec |-> 0, tv_usec |-> 1 + (k - 1) * spacing_us, len |-> 64]]

\* nb bursts of Scenario2BurstLen frames, intra_us apart, 2 ms between bursts
Scenario2(nb, intra_us) ==
    [k \in 1..(nb * Scenario2BurstLen) |->
        LET j == (k - 1) \div Scenario2BurstLen
            p == (k - 1) % Scenario2BurstLen
        IN [tv_sec |-> 0,
            tv_usec |-> 1 + j * ((Scenario2BurstLen - 1) * intra_us + 2000) + p * intra_us,
            len |-> 64]]

\* n frames, every one more than the threshold away from its predecessor
\* (the capture clock steps back and forth)
Alternating(n) ==
    [k \in 1..n |-> [tv_sec |-> 0, tv_usec |-> IF k % 2 = 1 THEN 1003 ELSE 1, len |-> 64]]

\* a capture whose first frame carries the timestamp 0
EpochFirst ==
    << [tv_sec |-> 0, tv_usec |-> 0, len |-> 64],
       [tv_sec |-> 0, tv_usec |-> 501, len |-> 128] >>

\* n frames 501 us apart on a capture clock whose seconds stand still
\* (tv_usec starts again at every full second)
Sawtooth(n) ==
    [k \in 1..n |-> [tv_sec |-> 0, tv_usec |-> (1 + (k - 1) * 501) % 1000000, len |-> 64]]

\* the defaults of the command line: table output, no cycle override
DefaultConfig == [json_output |-> FALSE, expected_cycle_ms |-> RatZero]

\* the history before anything was sent or delivered
NoHistory ==
    [sends |-> 0, frames |-> 0, breakloop |-> {},
     sent_ok |-> [c \in 0..(MAX_TC - 1) |-> 0],
     delivered |-> [c \in 0..(MAX_TC - 1) |-> 0]]

NoFrame == [tv_sec |-> 0, tv_usec |-> 0, len |-> 0, pcp |-> 0]

\* a program without threads
ThreadsIdle ==
    /\ running = 1
    /\ data_mutex = "free"
    /\ rx_handle = "null"
    /\ main_pc = "off"
    /\ tx_pc = "off"
    /\ rx_pc = "off"
    /\ tx_idx = 0
    /\ rx_hdr = NoFrame
    /\ hist = NoHistory

CbsIdle ==
    /\ ThreadsIdle
    /\ impl = "cbs-estimator"
    /\ pending = <<>>
    /\ tc = EmptyTc
    /\ cbs_pc = "off"
    /\ report = <<>>

\* MAX_PACKETS of the program (cbs-estimator and tsn-verify share the value)
MaxPackets ==
    IF impl = "tas-estimator" THEN MAX_PACKETS_TAS
    ELSE IF impl = "tsn-verify-simple" THEN MAX_PACKETS_SIMPLE
    ELSE MAX_PACKETS_CBS

\* a store that also takes the observation that follows the last slot
StoreHasRoomOffByOne(t) == t.packet_count <= MaxPackets

\* if (tc->packet_count < MAX_PACKETS)
StoreHasRoom(t) == t.packet_count < MaxPackets

\* packet_handler / rx_callback on one frame that passed the VLAN filter
\* (tc_data_t of tas-estimator has no total_bytes)
StoreFrame(t, hdr) ==
    LET ts_ns == TsNs(hdr)
    IN IF StoreHasRoom(t)
       THEN [t EXCEPT
                !.packets = Append(@, [ts_ns |-> ts_ns, len |-> hdr.len]),
                !.packet_count = @ + 1,
                !.total_bytes = IF impl = "tas-estimator" THEN @ ELSE @ + hdr.len,
                !.first_ts = IF @ = 0 THEN ts_ns ELSE @,
                !.last_ts = ts_ns]
       ELSE t

\* the callback applied to frames[lo..hi] in order (by halving: the left
\* half is stored first, the stack stays shallow)
RECURSIVE StoreFrames(_, _, _, _)
StoreFrames(t, frames, lo, hi) ==
    IF lo > hi THEN t
    ELSE IF lo = hi THEN StoreFrame(t, frames[lo])
    ELSE LET mid == (lo + hi) \div 2
             left == StoreFrames(t, frames, lo, mid)
         IN IF left.packet_count >= 0   \* the left half is evaluated first
            THEN StoreFrames(left, frames, mid + 1, hi)
            ELSE left

\* main's capture loop: one pcap_dispatch(handle, 100, packet_handler, NULL),
\* which hands the callback one frame or a full batch
pcap_dispatch ==
    /\ cbs_pc = "capture"
    /\ pending # <<>>
    /\ \E want \in {1, DISPATCH_CNT} :
           LET n == IF want < Len(pending) THEN want ELSE Len(pending)
           IN /\ tc' = StoreFrames(tc, pending, 1, n)
              /\ pending' = SubSeq(pending, n + 1, Len(pending))
    /\ UNCHANGED <<impl, cbs_pc, report, config>>
    /\ UNCHANGED <<tas_vars, thr_vars>>

\* the callback on the next captured frame, which carries priority pcp
packet_handler ==
    /\ cbs_pc = "store"
    /\ pending # <<>>
    /\ LET hdr == Head(pending)
       IN tc_data' = [tc_data EXCEPT ![hdr.pcp] = StoreFrame(@, hdr)]
    /\ pending' = Tail(pending)
    /\ UNCHANGED <<impl, tc, cbs_pc, report, config>>
    /\ UNCHANGED <<cycle_ns, estimated_gcl, tas_t, tas_pc, thr_vars>>

\* main: the capture loop ends; a class with packets is analysed
CaptureEnd ==
    /\ cbs_pc = "capture"
    /\ pending = <<>>
    /\ cbs_pc' = IF tc.packet_count > 0 THEN "detect_bursts" ELSE "done"
    /\ UNCHANGED <<impl, pending, tc, report, config>>
    /\ UNCHANGED <<tas_vars, thr_vars>>

NewBurst(p) == [start_ns |-> p.ts_ns, end_ns |-> 0, bytes |-> p.len, packets |-> 1]

\* the loop condition of detect_bursts at index i (0-based, as in the code)
BurstLoopCond(t, i) ==
    /\ i < t.packet_count
    /\ (impl = "tsn-verify" => t.burst_count < MaxBursts)

\* a gap equal to the threshold opens a burst too
OpensBurstAtThreshold(t, gap) ==
    /\ gap >= BURST_GAP_THRESHOLD_US * 1000
    /\ (impl = "cbs-estimator" => t.burst_count < MaxBursts)

\* whether an iteration opens a new burst
OpensBurst(t, gap) ==
    /\ gap > BURST_GAP_THRESHOLD_US * 1000
    /\ (impl = "cbs-estimator" => t.burst_count < MaxBursts)

\* b->end_ns of the burst closed at iteration i
BurstEnd(prev, cur) == prev.ts_ns

\* iteration i of the loop of detect_bursts (packets[i] is t.packets[i + 1]);
\* b is &bursts[burst_count - 1] throughout
BurstLoopBody(t, i) ==
    LET cur == t.packets[i + 1]
        prev == t.packets[i]
        gap == Sub64(cur.ts_ns, prev.ts_ns)
        b == t.burst_count
    IN IF OpensBurst(t, gap)
       THEN [t EXCEPT
                !.bursts = Append([@ EXCEPT ![b].end_ns = BurstEnd(prev, cur)],
                                  NewBurst(cur)),
                !.burst_count = @ + 1]
       ELSE [t EXCEPT
                !.bursts[b].bytes = @ + cur.len,
                !.bursts[b].packets = @ + 1]

\* iterations lo..hi of the loop, in order; an iteration whose loop condition
\* fails ends the loop (the condition cannot become true again)
RECURSIVE BurstLoop(_, _, _)
BurstLoop(t, lo, hi) ==
    IF lo > hi THEN t
    ELSE IF lo = hi THEN (IF BurstLoopCond(t, lo) THEN BurstLoopBody(t, lo) ELSE t)
    ELSE LET mid == (lo + hi) \div 2
             left == BurstLoop(t, lo, mid)
         IN IF left.burst_count >= 0   \* the left half is evaluated first
            THEN BurstLoop(left, mid + 1, hi)
            ELSE left

\* detect_bursts(tc)
DetectBursts(t) ==
    IF t.packet_count < 2 THEN t
    ELSE LET first == [t EXCEPT !.bursts = <<NewBurst(t.packets[1])>>,
                                !.burst_count = 1]
             looped == BurstLoop(first, 1, t.packet_count - 1)
         IN [looped EXCEPT !.bursts[looped.burst_count].end_ns =
                               t.packets[t.packet_count].ts_ns]

detect_bursts ==
    /\ cbs_pc = "detect_bursts"
    /\ tc' = DetectBursts(tc)
    /\ cbs_pc' = "analyze_cbs"
    /\ UNCHANGED <<impl, pending, report, config>>
    /\ UNCHANGED <<tas_vars, thr_vars>>

\* sum over the bursts of (end_ns - start_ns), in microseconds
BurstDurUs(b) == Sub64(b.end_ns, b.start_ns) \div 1000
TotalBurstTimeUs(bursts) ==
    SumSeq([i \in 1..Len(bursts) |-> BurstDurUs(bursts[i])])

\* sum over the bursts but the last of the gap to the next burst
TotalGapTimeUs(bursts) ==
    SumSeq([i \in 1..(Len(bursts) - 1) |->
               Sub64(bursts[i + 1].start_ns, bursts[i].end_ns) \div 1000])

RECURSIVE MaxBurstBytes(_, _, _)
MaxBurstBytes(bursts, lo, hi) ==
    IF lo > hi THEN 0
    ELSE IF lo = hi THEN bursts[lo].bytes
    ELSE LET mid == (lo + hi) \div 2
             l == MaxBurstBytes(bursts, lo, mid)
             r == MaxBurstBytes(bursts, mid + 1, hi)
         IN IF l >= r THEN l ELSE r

\* regular_bursts asks for more than 4 bursts
IsShapedOffByOne(avg_gap, burst_count, burst_ratio) ==
    /\ (impl = "cbs-estimator" => RatLess(Rat(100, 1), avg_gap))
    /\ burst_count > 4
    /\ RatLess(burst_ratio, Rat(85, 100))

\* regular_bursts is left out of the conjunction
IsShapedAnyBurstCount(avg_gap, burst_count, burst_ratio) ==
    /\ (impl = "cbs-estimator" => RatLess(Rat(100, 1), avg_gap))
    /\ RatLess(burst_ratio, Rat(85, 100))

\* has_gaps && regular_bursts && burst_ratio < 0.85 (cbs-estimator);
\* tsn-verify leaves has_gaps out
IsShaped(avg_gap, burst_count, burst_ratio) ==
    /\ (impl = "cbs-estimator" => RatLess(Rat(100, 1), avg_gap))
    /\ burst_count > 3
    /\ RatLess(burst_ratio, Rat(85, 100))

\* what analyze_cbs writes once both guards are passed
Estimate(t) ==
    LET dur_ns == Sub64(t.last_ts, t.first_ts)
        measured == Rat(t.total_bytes * 8, dur_ns)
        avg_gap == IF t.burst_count > 1
                   THEN Rat(TotalGapTimeUs(t.bursts), t.burst_count - 1)
                   ELSE RatZero
        ratio == Rat(TotalBurstTimeUs(t.bursts), dur_ns \div 1000)
    IN [t EXCEPT
           !.measured_bps = measured,
           !.max_burst_bytes = IF impl = "cbs-estimator"
                               THEN MaxBurstBytes(t.bursts, 1, Len(t.bursts)) ELSE @,
           !.avg_gap_duration_us = IF impl = "cbs-estimator" THEN avg_gap ELSE @,
           !.burst_ratio = ratio,
           !.is_shaped = IsShaped(avg_gap, t.burst_count, ratio),
           !.estimated_idle_slope = measured,
           !.analyzed = TRUE]

\* the guards of analyze_cbs: too few packets, no burst, no duration
AnalyzeCbsReturnsEarly ==
    \/ tc.packet_count < 10
    \/ (impl = "cbs-estimator" /\ tc.burst_count < 1)
    \/ Sub64(tc.last_ts, tc.first_ts) <= 0

analyze_cbs ==
    /\ cbs_pc = "analyze_cbs"
    /\ tc' = IF AnalyzeCbsReturnsEarly THEN tc ELSE Estimate(tc)
    /\ cbs_pc' = "done"
    /\ UNCHANGED <<impl, pending, report, config>>
    /\ UNCHANGED <<tas_vars, thr_vars>>

\* tx_thread of tsn-verify while main waits: one send that succeeded
tx_send ==
    /\ cbs_pc = "capture"
    /\ impl = "tsn-verify"
    /\ tc.tx_count < MaxTx
    /\ tc' = [tc EXCEPT !.tx_count = @ + 1]
    /\ UNCHANGED <<impl, pending, cbs_pc, report, config>>
    /\ UNCHANGED <<tas_vars, thr_vars>>

\* the row a report prints for the class
ResultRow(t) ==
    [tx |-> t.tx_count, rx |-> t.packet_count, measured_bps |-> t.measured_bps,
     is_shaped |-> t.is_shaped, estimated_idle_slope |-> t.estimated_idle_slope]

\* the 'continue' of the report loops: cbs-estimator (both outputs) and the
\* JSON output of tsn-verify skip a class below 10 packets; the table of
\* tsn-verify skips it only when nothing was transmitted for it either
RowSkipped(t) ==
    IF impl = "tsn-verify" /\ ~config.json_output
    THEN t.packet_count < 10 /\ t.tx_count = 0
    ELSE t.packet_count < 10

\* print_results_json / print_results_human / print_cbs_results
print_cbs_results ==
    /\ cbs_pc = "done"
    /\ report' = IF RowSkipped(tc) THEN report ELSE Append(report, ResultRow(tc))
    /\ cbs_pc' = "reported"
    /\ UNCHANGED <<impl, pending, tc, config>>
    /\ UNCHANGED <<tas_vars, thr_vars>>

\* ------------------------------------------------------------ TAS path
Classes == 0..(MAX_TC - 1)

\* memset(tc_data, 0, sizeof(tc_data)) of tas-estimator
EmptyTasTc == [packets |-> <<>>, packet_count |-> 0, first_ts |-> 0,
               histogram |-> <<>>, histogram_size |-> 0, windows |-> <<>>]

\* ---- cycle detection
\* candidate_cycles of detect_cycle_time, candidates of detect_cycle
CandidatesTas ==
    <<100000, 500000, 1000000, 2000000, 5000000, 10000000, 20000000, 50000000,
      100000000, 200000000, 500000000>>
CandidatesTsn ==
    <<1000000, 2000000, 5000000, 10000000, 20000000, 50000000, 100000000, 200000000>>

\* (uint64_t)(expected_cycle_ms * 1e6)
OverrideNs(ms) == (ms.num * 1000000) \div ms.den
OverridePresent(ms) == ms.num > 0

\* the bin of packet i (1-based) for a candidate cycle cut into n_bins bins
CycleBin(t, i, cycle, n_bins) ==
    LET offset == Sub64(t.packets[i].ts_ns, t.first_ts) % cycle
    IN (offset \div (cycle \div n_bins)) % n_bins

\* bins[b] after the packets of the class were counted
CycleBins(t, cycle, n_bins) ==
    [b \in 0..(n_bins - 1) |->
        Cardinality({i \in 1..t.packet_count : CycleBin(t, i, cycle, n_bins) = b})]

\* sum over the bins of (n_bins * bins[b] - packet_count)^2, which is
\* n_bins^2 times the code's sum of (bins[b] - mean)^2, mean = count / n_bins
SquaredDeviation(t, cycle, n_bins) ==
    LET bins == CycleBins(t, cycle, n_bins)
    IN SumSeq([k \in 1..n_bins |->
                  (n_bins * bins[k - 1] - t.packet_count)
                  * (n_bins * bins[k - 1] - t.packet_count)])

\* score of one class in detect_cycle_time: (variance / n_bins) /
\* (mean * mean + 0.001) with n_bins = 100, i.e. S / (100 * count^2 + 1000)
ScoreTas(t, cycle) ==
    Rat(SquaredDeviation(t, cycle, CYCLE_BINS_TAS),
        CYCLE_BINS_TAS * t.packet_count * t.packet_count + 1000)

\* score of one class in detect_cycle: var / (mean * mean + 0.001) with 50
\* bins and var not divided, i.e. 2 * S / (2 * count^2 + 5)
ScoreTsn(t, cycle) ==
    Rat(2 * SquaredDeviation(t, cycle, CYCLE_BINS_TSN),
        2 * t.packet_count * t.packet_count + 5)

\* a + b and a < b on scores (no cross-multiplication on equal denominators)
ScoreAdd(a, b) ==
    IF a.num = 0 THEN b
    ELSE IF a.den = b.den THEN Rat(a.num + b.num, a.den)
    ELSE Rat(a.num * b.den + b.num * a.den, a.den * b.den)
ScoreLess(a, b) ==
    IF a.den = b.den THEN a.num < b.num ELSE a.num * b.den < b.num * a.den

\* a search that also takes a class one packet short of the minimum
CycleClassesOneShort(data, min_packets) ==
    {t \in DOMAIN data : data[t].packet_count >= min_packets - 1}

\* the classes that take part in the search
CycleClasses(data, min_packets) ==
    {t \in DOMAIN data : data[t].packet_count >= min_packets}

RECURSIVE ScoreSum(_, _, _, _)
ScoreSum(data, cycle, tas, todo) ==
    IF todo = {} THEN RatZero
    ELSE LET t == CHOOSE x \in todo : \A y \in todo : x <= y
         IN ScoreAdd(IF tas THEN ScoreTas(data[t], cycle) ELSE ScoreTsn(data[t], cycle),
                     ScoreSum(data, cycle, tas, todo \ {t}))

\* total_score / tc_count of candidate cycle
CandidateScore(data, cycle, tas) ==
    LET classes == CycleClasses(data, IF tas THEN CYCLE_MIN_PACKETS_TAS
                                             ELSE CYCLE_MIN_PACKETS_TSN)
        total == ScoreSum(data, cycle, tas, classes)
    IN Rat(total.num, total.den * Cardinality(classes))

\* the loop over the candidates from c on; st is [best_score, best_cycle]
RECURSIVE CycleSearch(_, _, _, _, _)
CycleSearch(data, cands, tas, c, st) ==
    IF c > Len(cands) THEN st.best_cycle
    ELSE LET min_packets == IF tas THEN CYCLE_MIN_PACKETS_TAS ELSE CYCLE_MIN_PACKETS_TSN
             score == CandidateScore(data, cands[c], tas)
             next == IF CycleClasses(data, min_packets) # {}
                        /\ ScoreLess(st.best_score, score)
                     THEN [best_score |-> score, best_cycle |-> cands[c]]
                     ELSE st
         IN CycleSearch(data, cands, tas, c + 1, next)

\* the override is used only when the search found nothing
ApplyOverrideIfNoneFound(best_cycle, ms) ==
    IF OverridePresent(ms) /\ best_cycle = 0 THEN OverrideNs(ms) ELSE best_cycle

\* the end of detect_cycle_time: if expected_cycle_ms > 0, use it
ApplyOverride(best_cycle, ms) ==
    IF OverridePresent(ms) THEN OverrideNs(ms) ELSE best_cycle

\* detect_cycle_time() of tas-estimator
DetectCycleTime(data, ms) ==
    ApplyOverride(CycleSearch(data, CandidatesTas, TRUE, 1,
                              [best_score |-> RatZero, best_cycle |-> 0]), ms)

\* detect_cycle() of tsn-verify
DetectCycle(data, ms) ==
    IF OverridePresent(ms) THEN OverrideNs(ms)
    ELSE CycleSearch(data, CandidatesTsn, FALSE, 1,
                     [best_score |-> RatZero, best_cycle |-> 0])

\* threshold of detect_windows: (int)(mean * 0.3), at least 1, with
\* mean = packet_count * 2.0 / histogram_size
WindowThreshold(t) ==
    LET thr == (t.packet_count * 2 * 3) \div (t.histogram_size * 10)
    IN IF thr < 1 THEN 1 ELSE thr

\* the scan of detect_windows from bin i on (histogram[i] is t.histogram[i+1]);
\* st is [in_window, window_start, windows]
RECURSIVE ScanBins(_, _, _, _, _, _)
ScanBins(t, threshold, bin_size, tc_idx, i, st) ==
    IF i > t.histogram_size THEN st
    ELSE LET bin_val == IF i < t.histogram_size THEN t.histogram[i + 1] ELSE 0
             has_traffic == bin_val >= threshold
             next ==
                 IF has_traffic /\ ~st.in_window
                 THEN [st EXCEPT !.in_window = TRUE, !.window_start = i]
                 ELSE IF ~has_traffic /\ st.in_window
                 THEN [st EXCEPT
                          !.in_window = FALSE,
                          !.windows =
                              IF Len(@) < MAX_WINDOWS
                              THEN Append(@, [tc |-> tc_idx,
                                              start_offset_ns |-> st.window_start * bin_size,
                                              duration_ns |-> (i - st.window_start) * bin_size])
                              ELSE @]
                 ELSE st
         IN ScanBins(t, threshold, bin_size, tc_idx, i + 1, next)

\* the wrap-around merge of detect_windows, after the scan
WrapMerge(t, threshold, cycle, st) ==
    IF st.in_window /\ Len(st.windows) > 0 /\ t.histogram[1] >= threshold
    THEN LET n == Len(st.windows)
             last == st.windows[n]
             first == st.windows[1]
             dur == last.duration_ns + first.duration_ns
             merged == [first EXCEPT
                           !.start_offset_ns = last.start_offset_ns,
                           !.duration_ns = IF dur > cycle THEN cycle ELSE dur]
         IN SubSeq([st.windows EXCEPT ![1] = merged], 1, n - 1)
    ELSE st.windows

\* a detect_windows whose bin size is rounded up
DetectWindowsRoundedUp(t, cycle, tc_idx) ==
    IF t.histogram_size = 0 \/ t.packet_count < 10 THEN t
    ELSE LET threshold == WindowThreshold(t)
             bin_size == cycle \div t.histogram_size + 1
             scanned == ScanBins(t, threshold, bin_size, tc_idx, 0,
                                 [in_window |-> FALSE, window_start |-> 0,
                                  windows |-> <<>>])
         IN [t EXCEPT !.windows = WrapMerge(t, threshold, cycle, scanned)]

\* detect_windows(tc, cycle_ns, tc_idx)
DetectWindows(t, cycle, tc_idx) ==
    IF t.histogram_size = 0 \/ t.packet_count < 10 THEN t
    ELSE LET threshold == WindowThreshold(t)
             bin_size == cycle \div t.histogram_size
             scanned == ScanBins(t, threshold, bin_size, tc_idx, 0,
                                 [in_window |-> FALSE, window_start |-> 0,
                                  windows |-> <<>>])
         IN [t EXCEPT !.windows = WrapMerge(t, threshold, cycle, scanned)]

\* main: one turn of the loop over the classes (the histogram of the class
\* is the one build_histogram left)
detect_windows ==
    /\ tas_pc = "windows"
    /\ tas_t < MAX_TC
    /\ tc_data' = [tc_data EXCEPT ![tas_t] = DetectWindows(@, cycle_ns, tas_t)]
    /\ tas_t' = tas_t + 1
    /\ tas_pc' = IF tas_t + 1 = MAX_TC THEN "build_gcl" ELSE "windows"
    /\ UNCHANGED <<cycle_ns, estimated_gcl>>
    /\ UNCHANGED <<cbs_vars, config, thr_vars>>

\* build_histogram(tc, cycle_ns); histogram[bin] is t.histogram[bin + 1]
BuildHistogram(t, cycle) ==
    IF t.packet_count < 10 \/ cycle = 0 THEN t
    ELSE LET n_bins == HISTOGRAM_BINS
             bin_size == IF cycle \div n_bins = 0 THEN 1 ELSE cycle \div n_bins
             BinOf(i) == ((Sub64(t.packets[i].ts_ns, t.first_ts) % cycle) \div bin_size)
                         % n_bins
         IN [t EXCEPT
                !.histogram_size = n_bins,
                !.histogram = [k \in 1..n_bins |->
                                  Cardinality({i \in 1..t.packet_count : BinOf(i) = k - 1})]]

\* main never stops on a cycle of 0
CycleCheckOmitted(cycle) == FALSE

\* main of tas-estimator: if (estimated_cycle_ns == 0) return 1
CycleNotDetected(cycle) == cycle = 0

\* main of tas-estimator: estimated_cycle_ns = detect_cycle_time() and the
\* test that follows it
detect_cycle_time ==
    /\ tas_pc = "detect_cycle"
    /\ impl = "tas-estimator"
    /\ LET cycle == DetectCycleTime(tc_data, config.expected_cycle_ms)
       IN /\ cycle_ns' = cycle
          /\ tas_pc' = IF CycleNotDetected(cycle) THEN "failed" ELSE "histogram"
    /\ UNCHANGED <<tc_data, estimated_gcl, tas_t>>
    /\ UNCHANGED <<cbs_vars, config, thr_vars>>

\* main of tsn-verify: estimated_cycle_ns = detect_cycle()
detect_cycle ==
    /\ tas_pc = "detect_cycle"
    /\ impl = "tsn-verify"
    /\ cycle_ns' = DetectCycle(tc_data, config.expected_cycle_ms)
    /\ tas_pc' = "analyze_tas"
    /\ UNCHANGED <<tc_data, estimated_gcl, tas_t>>
    /\ UNCHANGED <<cbs_vars, config, thr_vars>>

\* n_bins of analyze_tas
ANALYZE_BINS_TSN == 100

\* threshold of analyze_tas: (int)(mean * 0.3), at least 1, with
\* mean = packet_count / n_bins
AnalyzeThreshold(t) ==
    LET thr == (t.packet_count * 3) \div (ANALYZE_BINS_TSN * 10)
    IN IF thr < 1 THEN 1 ELSE thr

\* the bin of packet i in analyze_tas (a bin of n_bins or more is not counted)
AnalyzeBin(t, i, cycle) ==
    (Sub64(t.packets[i].ts_ns, t.first_ts) % cycle) \div (cycle \div ANALYZE_BINS_TSN)

\* analyze_tas of tsn-verify on one class: the histogram over the cycle and
\* the span from the first to the last bin at or above the threshold
AnalyzeTas(t, cycle) ==
    IF t.packet_count < 10 \/ cycle = 0 THEN t
    ELSE LET bin_size == cycle \div ANALYZE_BINS_TSN
             histogram == [b \in 1..ANALYZE_BINS_TSN |->
                 Cardinality({i \in 1..t.packet_count : AnalyzeBin(t, i, cycle) = b - 1})]
             open == {b \in 1..ANALYZE_BINS_TSN : histogram[b] >= AnalyzeThreshold(t)}
             start == (CHOOSE b \in open : \A x \in open : b <= x) - 1
             end == (CHOOSE b \in open : \A x \in open : b >= x) - 1
             h == [t EXCEPT !.histogram = histogram, !.histogram_size = ANALYZE_BINS_TSN]
         IN IF open = {} THEN h
            ELSE [h EXCEPT !.window_start_us = Rat(start * bin_size, 1000),
                           !.window_duration_us = Rat((end - start + 1) * bin_size, 1000)]

\* main of tsn-verify: analyze_tas on every class that holds packets
analyze_tas ==
    /\ tas_pc = "analyze_tas"
    /\ tc_data' = [t \in Classes |->
                       IF tc_data[t].packet_count > 0 THEN AnalyzeTas(tc_data[t], cycle_ns)
                       ELSE tc_data[t]]
    /\ tas_pc' = "print_tas"
    /\ UNCHANGED <<cycle_ns, estimated_gcl, tas_t>>
    /\ UNCHANGED <<cbs_vars, config, thr_vars>>

\* the row print_tas_results prints for the class
TasRow(t) ==
    [tx |-> t.tx_count, rx |-> t.packet_count, window_start_us |-> t.window_start_us,
     window_dur_us |-> t.window_duration_us]

\* the rows print_tas_results prints for classes c .. MAX_TC - 1
RECURSIVE TasRows(_, _)
TasRows(data, c) ==
    IF c >= MAX_TC THEN <<>>
    ELSE (IF RowSkipped(data[c]) THEN <<>> ELSE <<TasRow(data[c])>>) \o TasRows(data, c + 1)

\* main of tsn-verify: print_tas_results(); return 0
\* (the report opens with the cycle, then one row per class)
print_tas_results ==
    /\ tas_pc = "print_tas"
    /\ report' = <<[cycle_ms |-> Rat(cycle_ns, 1000000)]>> \o TasRows(tc_data, 0)
    /\ tas_pc' = "reported"
    /\ UNCHANGED <<impl, pending, tc, cbs_pc, config>>
    /\ UNCHANGED <<cycle_ns, tc_data, estimated_gcl, tas_t, thr_vars>>

\* main of tas-estimator: one turn of the loop that builds the histogram of
\* a class and detects its windows
build_histogram ==
    /\ tas_pc = "histogram"
    /\ tas_t < MAX_TC
    /\ tc_data' = [tc_data EXCEPT
                      ![tas_t] = DetectWindows(BuildHistogram(@, cycle_ns), cycle_ns, tas_t)]
    /\ tas_t' = tas_t + 1
    /\ tas_pc' = IF tas_t + 1 = MAX_TC THEN "build_gcl" ELSE "histogram"
    /\ UNCHANGED <<cycle_ns, estimated_gcl>>
    /\ UNCHANGED <<cbs_vars, config, thr_vars>>

\* gate_states bit b
Bit(m, b) == (m \div (2 ^ b)) % 2 = 1
SetBit(m, b) == IF Bit(m, b) THEN m ELSE m + 2 ^ b
ClearBit(m, b) == IF Bit(m, b) THEN m - 2 ^ b ELSE m

\* the start event and the end event of window w of class t
StartEvent(win, t) == [time |-> win.start_offset_ns, tc |-> t, is_start |-> TRUE]
EndEvent(win, t, cycle) ==
    [time |-> (win.start_offset_ns + win.duration_ns) % cycle, tc |-> t,
     is_start |-> FALSE]

\* the events of class t: for each window in turn, its start, then its end
EventsOfClass(data, t, cycle) ==
    [k \in 1..(2 * Len(data[t].windows)) |->
        IF k % 2 = 1 THEN StartEvent(data[t].windows[(k + 1) \div 2], t)
        ELSE EndEvent(data[t].windows[k \div 2], t, cycle)]

\* events[0 .. n_events-1], class by class
RECURSIVE CollectEvents(_, _, _)
CollectEvents(data, t, cycle) ==
    IF t >= MAX_TC THEN <<>>
    ELSE EventsOfClass(data, t, cycle) \o CollectEvents(data, t + 1, cycle)

\* the exchange sort of build_gcl: events[i] against events[j] for j in
\* lo..hi, in order (by halving, the left half first)
RECURSIVE SortInner(_, _, _, _)
SortInner(ev, i, lo, hi) ==
    IF lo > hi THEN ev
    ELSE IF lo = hi
    THEN (IF ev[lo].time < ev[i].time
          THEN [ev EXCEPT ![i] = ev[lo], ![lo] = ev[i]]
          ELSE ev)
    ELSE LET mid == (lo + hi) \div 2
             left == SortInner(ev, i, lo, mid)
         IN IF Len(left) >= 0 THEN SortInner(left, i, mid + 1, hi) ELSE ev

\* the outer loop of the sort, for i in lo..hi
RECURSIVE SortOuter(_, _, _)
SortOuter(ev, lo, hi) ==
    IF lo > hi THEN ev
    ELSE IF lo = hi THEN SortInner(ev, lo, lo + 1, Len(ev))
    ELSE LET mid == (lo + hi) \div 2
             left == SortOuter(ev, lo, mid)
         IN IF Len(left) >= 0 THEN SortOuter(left, mid + 1, hi) ELSE ev

SortEvents(ev) == SortOuter(ev, 1, Len(ev) - 1)

\* the gates open at time zero: bit t is set when a window of class t starts
\* at 0 or wraps past the end of the cycle
OpenAtZero(win, cycle) ==
    \/ win.start_offset_ns = 0
    \/ win.start_offset_ns + win.duration_ns > cycle

InitialGates(data, cycle) ==
    SumSeq([k \in 1..MAX_TC |->
               IF \E w \in 1..Len(data[k - 1].windows) :
                      OpenAtZero(data[k - 1].windows[w], cycle)
               THEN 2 ^ (k - 1) ELSE 0])

ApplyEvent(gates, ev) ==
    IF ev.is_start THEN SetBit(gates, ev.tc) ELSE ClearBit(gates, ev.tc)

\* one turn of the sweep of build_gcl, at event e; st is [gates, last_time, gcl]
SweepEvent(ev, e, st) ==
    IF Len(st.gcl) >= MAX_GCL_ENTRIES THEN st      \* the loop has ended
    ELSE IF e > 1 /\ ev[e].time = ev[e - 1].time
    THEN [st EXCEPT !.gates = ApplyEvent(@, ev[e])]
    ELSE IF ev[e].time > st.last_time
    THEN [gates |-> ApplyEvent(st.gates, ev[e]),
          last_time |-> ev[e].time,
          gcl |-> Append(st.gcl, [gate_states |-> st.gates,
                                  time_ns |-> (ev[e].time - st.last_time) % UINT32_MOD])]
    ELSE [st EXCEPT !.gates = ApplyEvent(@, ev[e])]

\* the sweep over events lo..hi, in order
RECURSIVE Sweep(_, _, _, _)
Sweep(ev, lo, hi, st) ==
    IF lo > hi THEN st
    ELSE IF lo = hi THEN SweepEvent(ev, lo, st)
    ELSE LET mid == (lo + hi) \div 2
             left == Sweep(ev, lo, mid, st)
         IN IF left.last_time >= 0 THEN Sweep(ev, mid + 1, hi, left) ELSE st

\* the cycle is left incomplete
FinalEntryDropped(st, cycle) == st.gcl

\* the final entry that completes the cycle
FinalEntry(st, cycle) ==
    IF st.last_time < cycle /\ Len(st.gcl) < MAX_GCL_ENTRIES
    THEN Append(st.gcl, [gate_states |-> st.gates,
                         time_ns |-> (cycle - st.last_time) % UINT32_MOD])
    ELSE st.gcl

\* one turn of the merge loop: entry i is folded into the last merged entry
\* or kept
MergeEntry(gcl, i, merged) ==
    LET m == Len(merged)
    IN IF m > 0 /\ merged[m].gate_states = gcl[i].gate_states
       THEN [merged EXCEPT ![m].time_ns = (@ + gcl[i].time_ns) % UINT32_MOD]
       ELSE Append(merged, gcl[i])

\* the merge of consecutive entries with the same gate state, entries lo..hi
RECURSIVE MergeRange(_, _, _, _)
MergeRange(gcl, lo, hi, merged) ==
    IF lo > hi THEN merged
    ELSE IF lo = hi THEN MergeEntry(gcl, lo, merged)
    ELSE LET mid == (lo + hi) \div 2
             left == MergeRange(gcl, lo, mid, merged)
         IN IF Len(left) >= 0 THEN MergeRange(gcl, mid + 1, hi, left) ELSE merged

\* the entries are left as the sweep wrote them
MergeOmitted(gcl) == gcl

MergeGcl(gcl) == MergeRange(gcl, 1, Len(gcl), <<>>)

\* estimated_gcl before the merge
SweptGcl(data, cycle) ==
    LET events == SortEvents(CollectEvents(data, 0, cycle))
        swept == Sweep(events, 1, Len(events),
                       [gates |-> InitialGates(data, cycle),
                        last_time |-> 0, gcl |-> <<>>])
    IN FinalEntry(swept, cycle)

\* build_gcl(cycle_ns)
BuildGcl(data, cycle) == MergeGcl(SweptGcl(data, cycle))

build_gcl ==
    /\ tas_pc = "build_gcl"
    /\ estimated_gcl' = BuildGcl(tc_data, cycle_ns)
    /\ tas_pc' = "done"
    /\ UNCHANGED <<cycle_ns, tc_data, tas_t>>
    /\ UNCHANGED <<cbs_vars, config, thr_vars>>

TasIdle ==
    /\ cycle_ns = 0
    /\ tc_data = [t \in Classes |-> EmptyTasTc]
    /\ estimated_gcl = <<>>
    /\ tas_t = 0
    /\ tas_pc = "off"

\* --- windows handed to build_gcl
Window(t, s, d) == [tc |-> t, start_offset_ns |-> s, duration_ns |-> d]

\* the tc_data whose windows are those of the list, class by class
WindowsOfClass(list, t) == SelectSeq(list, LAMBDA w : w.tc = t)

DataOfWindows(list) ==
    [t \in Classes |-> [EmptyTasTc EXCEPT !.windows = WindowsOfClass(list, t)]]

\* every non-degenerate window of a cycle, for the first GclClasses classes
NonDegenerateWindows(cycle) ==
    {Window(t, s, d) : t \in 0..(GclClasses - 1), s \in 0..(cycle - 1), d \in 1..cycle}

\* Scenario 4: class 0 open over [0, 3 ms), class 1 over [3 ms, 10 ms)
Scenario4Windows == <<Window(0, 0, 3000000), Window(1, 3000000, 7000000)>>

\* what detect_windows leaves for a 1 ms cycle (bins of 500 ns) when every
\* class has traffic in 16 isolated bins: bin 0, where its first packet
\* falls, and 15 bins that no other class uses
CombWindows ==
    [k \in 1..(MAX_TC * MAX_WINDOWS) |->
        LET t == (k - 1) \div MAX_WINDOWS
            w == (k - 1) % MAX_WINDOWS
        IN Window(t, IF w = 0 THEN 0 ELSE 1000 * (MAX_TC * w + t), 500)]

InitGcl ==
    /\ \/ /\ cycle_ns \in 2..GclMaxCycle
          /\ \E list \in SeqsUpTo(NonDegenerateWindows(cycle_ns), GclMaxWin) :
                 tc_data = DataOfWindows(list)
       \/ /\ cycle_ns = 10000000
          /\ tc_data = DataOfWindows(Scenario4Windows)
       \/ /\ cycle_ns = 1000000
          /\ tc_data = DataOfWindows(CombWindows)
       \/ /\ cycle_ns = UINT32_MOD       \* a cycle override, nothing captured
          /\ tc_data = DataOfWindows(<<>>)
    /\ estimated_gcl = <<>>
    /\ tas_t = MAX_TC
    /\ tas_pc = "build_gcl"
    /\ config = DefaultConfig
    /\ CbsIdle

NextGcl == build_gcl

SpecGcl == InitGcl /\ [][NextGcl]_vars

\* --- histograms handed to detect_windows
RECURSIVE Tuples(_, _)
Tuples(S, n) ==
    IF n = 0 THEN {<<>>}
    ELSE {Append(s, x) : s \in Tuples(S, n - 1), x \in S}

\* a class as build_histogram leaves it: untouched below 10 packets, else
\* HISTOGRAM_BINS bins that count every packet once
TasClassInputs ==
    {[EmptyTasTc EXCEPT !.packet_count = n] : n \in {0, 5}}
    \cup {[EmptyTasTc EXCEPT !.packet_count = SumSeq(h), !.histogram = h,
                             !.histogram_size = HISTOGRAM_BINS] :
             h \in {g \in Tuples({0, 1, 6}, HISTOGRAM_BINS) : SumSeq(g) >= 10}}

\* a histogram of CombRuns occupied bins, each followed by an empty bin
CombHistogram == [k \in 1..(2 * CombRuns) |-> IF k % 2 = 1 THEN 6 ELSE 0]

\* the class that holds the comb
CombClass ==
    [EmptyTasTc EXCEPT !.packet_count = SumSeq(CombHistogram),
                       !.histogram = CombHistogram,
                       !.histogram_size = Len(CombHistogram)]

InitTas ==
    /\ cycle_ns \in {HISTOGRAM_BINS, 2 * HISTOGRAM_BINS + 1}
    /\ \E f \in [0..(TasClasses - 1) -> TasClassInputs] :
           tc_data = [t \in Classes |-> IF t < TasClasses THEN f[t] ELSE EmptyTasTc]
    /\ estimated_gcl = <<>>
    /\ tas_t = 0
    /\ tas_pc = "windows"
    /\ config = DefaultConfig
    /\ CbsIdle

NextTas ==
    \/ detect_windows
    \/ build_gcl

SpecTas == InitTas /\ [][NextTas]_vars

\* --- one class handed to detect_windows, over cycles of at least as many
\* ns as its histogram has bins
InitWindows ==
    /\ \E x \in TasClassInputs \cup {CombClass} :
           /\ tc_data = [t \in Classes |-> IF t = 0 THEN x ELSE EmptyTasTc]
           /\ cycle_ns \in IF x = CombClass
                           THEN {2 * CombRuns, 4 * CombRuns + 1}
                           ELSE {HISTOGRAM_BINS, 2 * HISTOGRAM_BINS + 1, 1000000}
    /\ estimated_gcl = <<>>
    /\ tas_t = 0
    /\ tas_pc = "windows"
    /\ config = DefaultConfig
    /\ CbsIdle

NextWindows ==
    \/ detect_windows
    \/ build_gcl

SpecWindows == InitWindows /\ [][NextWindows]_vars

\* --- stores handed to the cycle detectors
\* n packets, one per period, the packet of period p at p * step_us
\* (mod window_us) after the start of the period; the capture starts at 1 ms
PeriodicStore(n, period_us, step_us, window_us) ==
    LET ts(i) == 1000 * (1000 + (i - 1) * period_us + (((i - 1) * step_us) % window_us))
    IN [EmptyTasTc EXCEPT
           !.packets = [i \in 1..n |-> [ts_ns |-> ts(i), len |-> 64]],
           !.packet_count = n,
           !.first_ts = ts(1)]

\* scenario 3: 200 periods of 10 ms, every packet in the first 2 ms
Scenario3(step_us) == PeriodicStore(Scenario3Periods, 10000, step_us, 2000)

\* the fields tc_data_t of tsn-verify has besides, zero after the memset
TsnTasFields ==
    [tx_count |-> 0, window_start_us |-> RatZero, window_duration_us |-> RatZero]

\* a steady stream: 100 packets, one every 10.101 ms
SteadyStream == PeriodicStore(100, 10101, 0, 1)

CycleClassInputs ==
    {EmptyTasTc, PeriodicStore(12, 1000, 0, 1), PeriodicStore(99, 1000, 0, 1),
     Scenario3(0), Scenario3(137), SteadyStream}

CycleOverrides == {RatZero, Rat(10, 1), Rat(5, 2)}

InitCycle ==
    /\ impl \in {"tas-estimator", "tsn-verify"}
    /\ pending = <<>>
    /\ tc = EmptyTc
    /\ cbs_pc = "off"
    /\ report = <<>>
    /\ \E ms \in CycleOverrides : config = [DefaultConfig EXCEPT !.expected_cycle_ms = ms]
    /\ cycle_ns = 0
    /\ \E a \in CycleClassInputs, b \in {EmptyTasTc, PeriodicStore(12, 1000, 0, 1),
                                          Scenario3(0)} :
           \* classes that are searched together hold equally many packets
           /\ (a.packet_count >= CYCLE_MIN_PACKETS_TSN
               /\ b.packet_count >= CYCLE_MIN_PACKETS_TSN)
                  => a.packet_count = b.packet_count
           /\ tc_data = [t \in Classes |->
                             LET store == IF t = 0 THEN a ELSE IF t = 1 THEN b
                                          ELSE EmptyTasTc
                             IN IF impl = "tsn-verify" THEN store @@ TsnTasFields
                                ELSE store]
    /\ estimated_gcl = <<>>
    /\ tas_t = 0
    /\ tas_pc = "detect_cycle"
    /\ ThreadsIdle

NextCycle ==
    \/ detect_cycle_time
    \/ detect_cycle
    \/ analyze_tas
    \/ print_tas_results
    \/ build_histogram
    \/ build_gcl

SpecCycle == InitCycle /\ [][NextCycle]_vars

\* --- stores at their capacity
\* the store of a class after n frames, 1 us apart, of 64 bytes each
FilledStore(n) ==
    [EmptyTc EXCEPT
        !.packets = [i \in 1..n |-> [ts_ns |-> 1000 * i, len |-> 64]],
        !.packet_count = n,
        !.total_bytes = IF impl = "tas-estimator" THEN 0 ELSE 64 * n,
        !.first_ts = 1000,
        !.last_ts = 1000 * n]

\* the k-th frame that arrives after the store was filled
LateFrame(k, p) ==
    [tv_sec |-> 0, tv_usec |-> MaxPackets + k, len |-> 128, pcp |-> p]

\* MaxLate frames, each of class 0 or 1
LateFrames ==
    {[k \in 1..MaxLate |-> LateFrame(k, f[k])] : f \in [1..MaxLate -> 0..1]}

InitStore ==
    /\ impl \in {"cbs-estimator", "tsn-verify", "tas-estimator"}
    /\ pending \in LateFrames
    /\ tc = EmptyTc
    /\ cbs_pc = "store"
    /\ report = <<>>
    /\ config = DefaultConfig
    /\ cycle_ns = 0
    /\ \E n \in {MaxPackets - 1, MaxPackets} :
           tc_data = [t \in Classes |-> IF t = 0 THEN FilledStore(n) ELSE EmptyTc]
    /\ estimated_gcl = <<>>
    /\ tas_t = 0
    /\ tas_pc = "off"
    /\ ThreadsIdle

NextStore == packet_handler

SpecStore == InitStore /\ [][NextStore]_vars

\* ------------------------------------------------------------ threads
\* what the threads of tsn-verify and tsn-verify-simple leave alone
seq_vars == <<cbs_vars, config, cycle_ns, estimated_gcl, tas_t, tas_pc>>

\* main: pthread_create(&rx_tid, NULL, rx_thread, NULL)
main_create_rx ==
    /\ main_pc = "create_rx"
    /\ rx_pc' = "open"
    /\ main_pc' = "create_tx"
    /\ UNCHANGED <<running, data_mutex, rx_handle, tx_pc, tx_idx, rx_hdr, hist>>
    /\ UNCHANGED <<seq_vars, tc_data>>

\* main: usleep(100000); pthread_create(&tx_tid, NULL, tx_thread, NULL)
main_create_tx ==
    /\ main_pc = "create_tx"
    /\ tx_pc' = "open"
    /\ main_pc' = "wait"
    /\ UNCHANGED <<running, data_mutex, rx_handle, rx_pc, tx_idx, rx_hdr, hist>>
    /\ UNCHANGED <<seq_vars, tc_data>>

\* main: while (running && get_time_ns() < end_time) usleep(100000) ends,
\* because the time is up or running is 0
main_wait ==
    /\ main_pc = "wait"
    /\ main_pc' = "stop"
    /\ UNCHANGED <<running, data_mutex, rx_handle, tx_pc, rx_pc, tx_idx, rx_hdr, hist>>
    /\ UNCHANGED <<seq_vars, tc_data>>

\* main: running = 0
main_stop ==
    /\ main_pc = "stop"
    /\ running' = 0
    /\ main_pc' = "join_tx"
    /\ UNCHANGED <<data_mutex, rx_handle, tx_pc, rx_pc, tx_idx, rx_hdr, hist>>
    /\ UNCHANGED <<seq_vars, tc_data>>

\* a join that returns while the thread still runs
JoinNeverWaits(thread_pc) == TRUE

\* pthread_join returns once the thread has returned
JoinReturns(thread_pc) == thread_pc = "done"

\* main: pthread_join(tx_tid, NULL)
main_join_tx ==
    /\ main_pc = "join_tx"
    /\ JoinReturns(tx_pc)
    /\ main_pc' = "join_rx"
    /\ UNCHANGED <<running, data_mutex, rx_handle, tx_pc, rx_pc, tx_idx, rx_hdr, hist>>
    /\ UNCHANGED <<seq_vars, tc_data>>

\* main: pthread_join(rx_tid, NULL)
main_join_rx ==
    /\ main_pc = "join_rx"
    /\ JoinReturns(rx_pc)
    /\ main_pc' = "analyze"
    /\ UNCHANGED <<running, data_mutex, rx_handle, tx_pc, rx_pc, tx_idx, rx_hdr, hist>>
    /\ UNCHANGED <<seq_vars, tc_data>>

\* the guards of analyze_cbs of tsn-verify on class t
AnalyzeCbsSkips(t) ==
    \/ t.packet_count < 10
    \/ Sub64(t.last_ts, t.first_ts) <= 0

\* main of tsn-verify: detect_bursts and analyze_cbs on a class with packets
\* (tsn-verify-simple only prints)
AnalyzeClass(t) ==
    IF impl = "tsn-verify" /\ t.packet_count > 0
    THEN LET b == DetectBursts(t)
         IN IF AnalyzeCbsSkips(b) THEN b ELSE Estimate(b)
    ELSE t

\* main: the analysis after the joins
main_analyze ==
    /\ main_pc = "analyze"
    /\ tc_data' = [c \in Classes |-> AnalyzeClass(tc_data[c])]
    /\ main_pc' = "report"
    /\ UNCHANGED <<running, data_mutex, rx_handle, tx_pc, rx_pc, tx_idx, rx_hdr, hist>>
    /\ UNCHANGED seq_vars

\* the row print_results of tsn-verify-simple prints for the class
SimpleRow(t) == [tx |-> t.tx_count, rx |-> t.packet_count]

\* the 'continue' of the report loop of main's program
ReportSkips(t) ==
    IF impl = "tsn-verify-simple"
    THEN t.tx_count = 0 /\ t.packet_count = 0
    ELSE RowSkipped(t)

\* the rows a report prints for classes c .. MAX_TC - 1
RECURSIVE PrintedRows(_, _)
PrintedRows(data, c) ==
    IF c >= MAX_TC THEN <<>>
    ELSE LET row == IF impl = "tsn-verify-simple" THEN SimpleRow(data[c])
                    ELSE ResultRow(data[c])
         IN (IF ReportSkips(data[c]) THEN <<>> ELSE <<row>>) \o PrintedRows(data, c + 1)

\* main: print_cbs_results() / print_results(); return 0
main_report ==
    /\ main_pc = "report"
    /\ report' = PrintedRows(tc_data, 0)
    /\ main_pc' = "exit"
    /\ UNCHANGED <<running, data_mutex, rx_handle, tx_pc, rx_pc, tx_idx, rx_hdr, hist>>
    /\ UNCHANGED <<impl, pending, tc, cbs_pc, config, cycle_ns, estimated_gcl, tas_t, tas_pc,
                   tc_data>>

\* pcap_breakloop on a handle that pcap_close has freed: the write lands in
\* freed memory, and the process goes on or dies
BreakloopAfterClose ==
    \/ main_pc' = main_pc
    \/ main_pc' = "crashed"

\* signal_handler: running = 0; if (rx_handle) pcap_breakloop(rx_handle)
\* (on an open handle the break flag only makes a dispatch return, which it
\* may do anyway; rx_handle keeps its value after pcap_close)
signal_handler ==
    /\ main_pc \notin {"off", "exit", "crashed"}
    /\ running' = 0
    /\ hist' = IF rx_handle = "null" THEN hist
               ELSE [hist EXCEPT !.breakloop = @ \cup {rx_handle}]
    /\ IF rx_handle = "closed" THEN BreakloopAfterClose ELSE main_pc' = main_pc
    /\ UNCHANGED <<data_mutex, rx_handle, tx_pc, rx_pc, tx_idx, rx_hdr>>
    /\ UNCHANGED <<seq_vars, tc_data>>

\* tx_thread: socket, ioctl (and bind in tsn-verify) succeed or the thread returns
tx_open ==
    /\ tx_pc = "open"
    /\ tx_pc' \in {"loop", "done"}
    /\ UNCHANGED <<running, data_mutex, rx_handle, main_pc, rx_pc, tx_idx, rx_hdr, hist>>
    /\ UNCHANGED <<seq_vars, tc_data>>

\* a loop that never looks at the flag
LoopForever(flag) == TRUE

\* while (running)
LoopContinues(flag) == flag # 0

\* tx_thread: while (running)
tx_loop ==
    /\ tx_pc = "loop"
    /\ tx_pc' = IF LoopContinues(running) THEN "wait" ELSE "close"
    /\ UNCHANGED <<running, data_mutex, rx_handle, main_pc, rx_pc, tx_idx, rx_hdr, hist>>
    /\ UNCHANGED <<seq_vars, tc_data>>

\* tx_thread: while (get_time_ns() < next_send && running) {} ends, then
\* if (!running) break; the time of the next send comes while sends remain
tx_wait ==
    /\ tx_pc = "wait"
    /\ \/ /\ running = 0
          /\ tx_pc' = "close"
       \/ /\ running # 0
          /\ hist.sends < MaxSends
          /\ tx_pc' = "send"
    /\ UNCHANGED <<running, data_mutex, rx_handle, main_pc, rx_pc, tx_idx, rx_hdr, hist>>
    /\ UNCHANGED <<seq_vars, tc_data>>

\* the class of the frame sent next: tcs[tc_idx % num_tcs], tc_idx % MAX_TC
TxClass == tx_idx % ThreadClasses

\* every send is counted
SendAlwaysCounted(sent) == TRUE

\* if (sent > 0)
SendCounted(sent) == sent > 0

\* tx_thread: send(); a failed send goes on to tc_idx++, next_send += interval_ns
tx_send_frame ==
    /\ tx_pc = "send"
    /\ \E sent \in {-1, 64} :
           /\ hist' = [hist EXCEPT !.sends = @ + 1,
                                   !.sent_ok[TxClass] = IF sent > 0 THEN @ + 1 ELSE @]
           /\ IF SendCounted(sent)
              THEN tx_pc' = "lock" /\ tx_idx' = tx_idx
              ELSE tx_pc' = "loop" /\ tx_idx' = tx_idx + 1
    /\ UNCHANGED <<running, data_mutex, rx_handle, main_pc, rx_pc, rx_hdr>>
    /\ UNCHANGED <<seq_vars, tc_data>>

\* tx_thread: pthread_mutex_lock(&data_mutex)
tx_lock ==
    /\ tx_pc = "lock"
    /\ data_mutex = "free"
    /\ data_mutex' = "tx"
    /\ tx_pc' = "count"
    /\ UNCHANGED <<running, rx_handle, main_pc, rx_pc, tx_idx, rx_hdr, hist>>
    /\ UNCHANGED <<seq_vars, tc_data>>

\* tx_thread: tc_data[tc].tx_count++
tx_count ==
    /\ tx_pc = "count"
    /\ tc_data' = [tc_data EXCEPT ![TxClass].tx_count = @ + 1]
    /\ tx_pc' = "unlock"
    /\ UNCHANGED <<running, data_mutex, rx_handle, main_pc, rx_pc, tx_idx, rx_hdr, hist>>
    /\ UNCHANGED seq_vars

\* tx_thread: pthread_mutex_unlock(&data_mutex); tc_idx++; next_send += interval_ns
tx_unlock ==
    /\ tx_pc = "unlock"
    /\ data_mutex' = "free"
    /\ tx_idx' = tx_idx + 1
    /\ tx_pc' = "loop"
    /\ UNCHANGED <<running, rx_handle, main_pc, rx_pc, rx_hdr, hist>>
    /\ UNCHANGED <<seq_vars, tc_data>>

\* tx_thread: close(sock); return NULL
tx_close ==
    /\ tx_pc = "close"
    /\ tx_pc' = "done"
    /\ UNCHANGED <<running, data_mutex, rx_handle, main_pc, rx_pc, tx_idx, rx_hdr, hist>>
    /\ UNCHANGED <<seq_vars, tc_data>>

\* rx_thread: pcap_open_live gives a handle or the thread returns
rx_open ==
    /\ rx_pc = "open"
    /\ \/ rx_handle' = "open" /\ rx_pc' = "loop"
       \/ rx_handle' = rx_handle /\ rx_pc' = "done"
    /\ UNCHANGED <<running, data_mutex, main_pc, tx_pc, tx_idx, rx_hdr, hist>>
    /\ UNCHANGED <<seq_vars, tc_data>>

\* rx_thread: while (running) pcap_dispatch(rx_handle, 100, rx_callback, NULL)
rx_loop ==
    /\ rx_pc = "loop"
    /\ rx_pc' = IF LoopContinues(running) THEN "dispatch" ELSE "close"
    /\ UNCHANGED <<running, data_mutex, rx_handle, main_pc, tx_pc, tx_idx, rx_hdr, hist>>
    /\ UNCHANGED <<seq_vars, tc_data>>

\* the n-th frame of the capture, of priority pcp
CapturedFrame(n, p) == [tv_sec |-> 0, tv_usec |-> n, len |-> 64, pcp |-> p]

\* pcap_dispatch hands a frame that passes the filters to rx_callback
rx_dispatch_frame ==
    /\ rx_pc = "dispatch"
    /\ hist.frames < MaxFrames
    /\ \E p \in 0..(ThreadClasses - 1) :
           /\ rx_hdr' = CapturedFrame(hist.frames + 1, p)
           /\ hist' = [hist EXCEPT !.frames = @ + 1, !.delivered[p] = @ + 1]
    /\ rx_pc' = "cb_lock"
    /\ UNCHANGED <<running, data_mutex, rx_handle, main_pc, tx_pc, tx_idx>>
    /\ UNCHANGED <<seq_vars, tc_data>>

\* rx_callback: pthread_mutex_lock(&data_mutex)
rx_cb_lock ==
    /\ rx_pc = "cb_lock"
    /\ data_mutex = "free"
    /\ data_mutex' = "rx"
    /\ rx_pc' = "cb_store"
    /\ UNCHANGED <<running, rx_handle, main_pc, tx_pc, tx_idx, rx_hdr, hist>>
    /\ UNCHANGED <<seq_vars, tc_data>>

\* rx_callback: the store of the frame
rx_cb_store ==
    /\ rx_pc = "cb_store"
    /\ tc_data' = [tc_data EXCEPT ![rx_hdr.pcp] = StoreFrame(@, rx_hdr)]
    /\ rx_pc' = "cb_unlock"
    /\ UNCHANGED <<running, data_mutex, rx_handle, main_pc, tx_pc, tx_idx, rx_hdr, hist>>
    /\ UNCHANGED seq_vars

\* rx_callback: pthread_mutex_unlock(&data_mutex)
rx_cb_unlock ==
    /\ rx_pc = "cb_unlock"
    /\ data_mutex' = "free"
    /\ rx_pc' = "dispatch"
    /\ UNCHANGED <<running, rx_handle, main_pc, tx_pc, tx_idx, rx_hdr, hist>>
    /\ UNCHANGED <<seq_vars, tc_data>>

\* pcap_dispatch returns (batch done, read timeout, or pcap_breakloop)
rx_dispatch_return ==
    /\ rx_pc = "dispatch"
    /\ rx_pc' = "loop"
    /\ UNCHANGED <<running, data_mutex, rx_handle, main_pc, tx_pc, tx_idx, rx_hdr, hist>>
    /\ UNCHANGED <<seq_vars, tc_data>>

\* rx_thread: pcap_close(rx_handle); return NULL
rx_close ==
    /\ rx_pc = "close"
    /\ rx_handle' = "closed"
    /\ rx_pc' = "done"
    /\ UNCHANGED <<running, data_mutex, main_pc, tx_pc, tx_idx, rx_hdr, hist>>
    /\ UNCHANGED <<seq_vars, tc_data>>

MainStep ==
    \/ main_create_rx
    \/ main_create_tx
    \/ main_wait
    \/ main_stop
    \/ main_join_tx
    \/ main_join_rx
    \/ main_analyze
    \/ main_report

\* the threads of a process that died take no step
ProcessAlive == main_pc # "crashed"

TxStep ==
    /\ ProcessAlive
    /\ \/ tx_open
       \/ tx_loop
       \/ tx_wait
       \/ tx_send_frame
       \/ tx_lock
       \/ tx_count
       \/ tx_unlock
       \/ tx_close

RxStep ==
    \/ rx_open
    \/ rx_loop
    \/ rx_dispatch_frame
    \/ rx_cb_lock
    \/ rx_cb_store
    \/ rx_cb_unlock
    \/ rx_dispatch_return
    \/ rx_close

\* main after memset(tc_data, 0, sizeof(tc_data)) and signal()
InitThreads ==
    /\ impl \in {"tsn-verify", "tsn-verify-simple"}
    /\ pending = <<>>
    /\ tc = EmptyTc
    /\ cbs_pc = "off"
    /\ report = <<>>
    /\ config = DefaultConfig
    /\ cycle_ns = 0
    /\ tc_data = [t \in Classes |-> EmptyTc]
    /\ estimated_gcl = <<>>
    /\ tas_t = 0
    /\ tas_pc = "off"
    /\ running = 1
    /\ data_mutex = "free"
    /\ rx_handle = "null"
    /\ main_pc = "create_rx"
    /\ tx_pc = "unborn"
    /\ rx_pc = "unborn"
    /\ tx_idx = 0
    /\ rx_hdr = NoFrame
    /\ hist = NoHistory

NextThreads ==
    \/ MainStep
    \/ TxStep
    \/ RxStep
    \/ signal_handler

SpecThreads == InitThreads /\ [][NextThreads]_vars

\* the scheduler runs every thread that can take a step, and every
\* pcap_dispatch call returns
FairThreads ==
    /\ WF_vars(MainStep)
    /\ WF_vars(TxStep)
    /\ WF_vars(RxStep)
    /\ WF_vars(rx_dispatch_return)

SpecThreadsFair == SpecThreads /\ FairThreads

CbsInputs ==
    SeqsUpTo(InputObs, MaxObs)
    \cup {Scenario1(Scenario1Count, s) : s \in {1000, 500, 100}}
    \cup {Scenario2(nb, s) : nb \in Scenario2MinBursts..(Scenario2MinBursts + 1), s \in {100, 500}}
    \cup {Scenario2(2, 100)}
    \cup {Scenario1(10, 0)}
    \cup {EpochFirst}

InitCbs ==
    /\ \/ /\ impl \in Impls
          /\ pending \in CbsInputs
       \/ /\ impl = "tsn-verify"
          /\ pending = Alternating(MAX_BURSTS_TSN + CapOverrun)
       \/ /\ impl = "cbs-estimator"
          /\ pending = Sawtooth(MAX_BURSTS_CBS + CapOverrun)
    /\ config \in {[DefaultConfig EXCEPT !.json_output = j] :
                       j \in IF impl = "tsn-verify" THEN BOOLEAN ELSE {FALSE}}
    /\ tc = EmptyTc
    /\ cbs_pc = "capture"
    /\ report = <<>>
    /\ TasIdle
    /\ ThreadsIdle

NextCbs ==
    \/ pcap_dispatch
    \/ CaptureEnd
    \/ detect_bursts
    \/ analyze_cbs
    \/ tx_send
    \/ print_cbs_results

SpecCbs == InitCbs /\ [][NextCbs]_vars

\* ------------------------------------------------------------ TAS claims
GclDone == tas_pc = "done"

Durations == [k \in 1..Len(estimated_gcl) |-> estimated_gcl[k].time_ns]

\* C1: for non-degenerate windows (0 <= start < C, 0 < duration <= C, up to
\* 16 per class, 8 classes) the durations of the entries build_gcl writes sum
\* to the cycle length C.
C1_DurationsSumToCycle ==
    GclDone => SumSeq(Durations) = cycle_ns

\* entry k covers [EntryStart(k), EntryStart(k) + time_ns) of the cycle
EntryStart(k) == SumRange(Durations, 1, k - 1)

\* the window is open over all of [from, to)
Covers(win, from, to) ==
    \/ /\ win.start_offset_ns <= from
       /\ to <= win.start_offset_ns + win.duration_ns
    \/ /\ win.start_offset_ns + win.duration_ns > cycle_ns
       /\ to <= win.start_offset_ns + win.duration_ns - cycle_ns

\* C2: bit b of an entry's mask is set exactly when some window of class b
\* covers the entry's interval (so a class whose window starts at 0, or spans
\* the whole cycle, has its bit set in the entry that begins at time zero).
C2_MaskIsCoverage ==
    GclDone =>
        \A k \in 1..Len(estimated_gcl) : \A b \in Classes :
            Bit(estimated_gcl[k].gate_states, b) <=>
                \E w \in 1..Len(tc_data[b].windows) :
                    Covers(tc_data[b].windows[w], EntryStart(k),
                           EntryStart(k) + estimated_gcl[k].time_ns)

\* C3: after build_gcl no two adjacent entries carry the same gate mask.
C3_NoAdjacentEqualMasks ==
    GclDone =>
        \A k \in 1..(Len(estimated_gcl) - 1) :
            estimated_gcl[k].gate_states # estimated_gcl[k + 1].gate_states

\* the sweep wrote adjacent entries with one mask, and the merge folded them
C3_Witness ==
    /\ GclDone
    /\ Len(estimated_gcl) < Len(SweptGcl(tc_data, cycle_ns))

\* histogram[i] (0-based) is at or above the presence threshold
BinOpen(t, i) == t.histogram[i + 1] >= WindowThreshold(t)

\* the number of open bins from bin 0 on, and up to the last bin
LeadingRun(t) ==
    CHOOSE n \in 0..t.histogram_size :
        /\ \A i \in 0..(n - 1) : BinOpen(t, i)
        /\ (n < t.histogram_size => ~BinOpen(t, n))
TrailingRun(t) ==
    CHOOSE n \in 0..t.histogram_size :
        /\ \A i \in (t.histogram_size - n)..(t.histogram_size - 1) : BinOpen(t, i)
        /\ (n < t.histogram_size => ~BinOpen(t, t.histogram_size - n - 1))

\* detect_windows has run on class t and did not return early
WindowsDetected(t) ==
    /\ tas_pc \in {"windows", "build_gcl", "done"}
    /\ t < tas_t
    /\ tc_data[t].histogram_size > 0
    /\ tc_data[t].packet_count >= 10

\* the histogram is open in a run up to the last bin and in a run from bin 0
CrossesBoundary(t) ==
    /\ LeadingRun(t) > 0
    /\ TrailingRun(t) > 0
    /\ LeadingRun(t) < t.histogram_size

\* C4: an open interval that crosses the cycle boundary (a run of open bins
\* up to the last bin and a run from bin 0) is reported as one window, from
\* the start of the trailing run, as long as both runs together (at most the
\* cycle), and not as two windows.
C4_WrapIsOneWindow ==
    \A t \in Classes :
        (WindowsDetected(t) /\ CrossesBoundary(tc_data[t])) =>
            LET d == tc_data[t]
                bin_size == cycle_ns \div d.histogram_size
                both == (TrailingRun(d) + LeadingRun(d)) * bin_size
            IN /\ \E w \in 1..Len(d.windows) :
                      /\ d.windows[w].start_offset_ns =
                             (d.histogram_size - TrailingRun(d)) * bin_size
                      /\ d.windows[w].duration_ns =
                             IF both > cycle_ns THEN cycle_ns ELSE both
               /\ \A w \in 1..Len(d.windows) : d.windows[w].start_offset_ns # 0

StoredScenario4 ==
    /\ cycle_ns = 10000000
    /\ tc_data = DataOfWindows(Scenario4Windows)

\* C5: with a 10 ms cycle, class 0 open over [0, 3 ms) and class 1 over
\* [3 ms, 10 ms), build_gcl yields exactly the two entries mask 0b01 for 3 ms,
\* then mask 0b10 for 7 ms.
C5_ScenarioTwoEntries ==
    (GclDone /\ StoredScenario4) =>
        estimated_gcl = << [gate_states |-> 1, time_ns |-> 3000000],
                           [gate_states |-> 2, time_ns |-> 7000000] >>

C5_Witness ==
    /\ GclDone
    /\ StoredScenario4
    /\ Len(estimated_gcl) = 2

\* ------------------------------------------------------------ CBS claims
\* detect_bursts has returned for the class
AfterDetectBursts == cbs_pc \in {"analyze_cbs", "done"}

BurstPackets == SumSeq([k \in 1..Len(tc.bursts) |-> tc.bursts[k].packets])
BurstBytes == SumSeq([k \in 1..Len(tc.bursts) |-> tc.bursts[k].bytes])
StoredBytes == SumSeq([k \in 1..Len(tc.packets) |-> tc.packets[k].len])

\* C6: after detect_bursts the packet counts of the bursts sum to the number
\* of stored observations, for a store of any length.
C6_BurstsCoverAll ==
    AfterDetectBursts => BurstPackets = tc.packet_count

BurstsOrdered ==
    \A k \in 1..Len(tc.bursts) :
        /\ tc.bursts[k].start_ns <= tc.bursts[k].end_ns
        /\ (k < Len(tc.bursts) => tc.bursts[k].end_ns < tc.bursts[k + 1].start_ns)

\* C7: whatever the order of the timestamps, every burst has
\* start_ns <= end_ns and ends before the next burst starts.
C7_OrderedAnyInput ==
    AfterDetectBursts => BurstsOrdered

\* C8: the burst count never exceeds the capacity, and once it has reached
\* the capacity every remaining observation is added to the last burst's
\* packet and byte counts (so the bursts still account for every observation).
C8_CapExtendsLastBurst ==
    /\ tc.burst_count <= MaxBursts
    /\ (AfterDetectBursts /\ tc.burst_count = MaxBursts) =>
           /\ BurstPackets = tc.packet_count
           /\ BurstBytes = StoredBytes

\* the store holds Scenario1Count observations spacing_us apart
StoredScenario1(spacing_us) ==
    /\ tc.packet_count = Scenario1Count
    /\ \A k \in 1..Scenario1Count :
           tc.packets[k].ts_ns = (1 + (k - 1) * spacing_us) * 1000

OneUnshapedBurst ==
    /\ tc.burst_count = 1
    /\ tc.analyzed
    /\ ~tc.is_shaped
    /\ tc.burst_ratio.num = tc.burst_ratio.den

\* C9 as stated: 1000 observations at a uniform 1 ms spacing end as one burst,
\* not shaped, with a burst ratio of 1.
C9_UniformOneMs ==
    (cbs_pc = "done" /\ StoredScenario1(1000)) => OneUnshapedBurst

\* C9 as amended: 1000 observations at a uniform spacing of at most 500 us end
\* as one burst, not shaped, with a burst ratio of 1; at a 1 ms spacing every
\* gap exceeds the 500 us threshold, so they end as 1000 one-packet bursts
\* with a burst ratio of 0 and is_shaped = true.
C9_UniformSpacing ==
    cbs_pc = "done" =>
        /\ \A s \in {100, 500} : StoredScenario1(s) => OneUnshapedBurst
        /\ StoredScenario1(1000) =>
               /\ tc.burst_count = Scenario1Count
               /\ \A k \in 1..Len(tc.bursts) : tc.bursts[k].packets = 1
               /\ tc.analyzed
               /\ tc.burst_ratio.num = 0
               /\ tc.is_shaped

C9_Witness ==
    /\ cbs_pc = "done"
    /\ StoredScenario1(500)
    /\ tc.analyzed
    /\ impl = "cbs-estimator"

\* at least Scenario2MinBursts bursts of Scenario2BurstLen packets each, 2 ms
\* apart, whose time is below 85% of the observed duration
ShapedPattern ==
    /\ tc.burst_count >= Scenario2MinBursts
    /\ \A k \in 1..Len(tc.bursts) :
           /\ tc.bursts[k].packets = Scenario2BurstLen
           /\ k < Len(tc.bursts) =>
                  tc.bursts[k + 1].start_ns - tc.bursts[k].end_ns = 2000000
    /\ TotalBurstTimeUs(tc.bursts) * 100 < 85 * ((tc.last_ts - tc.first_ts) \div 1000)

\* C10: a class whose observations form at least 4 bursts of 10 packets, 2 ms
\* apart, with burst time below 85% of the observed duration, is classified
\* shaped and its estimated idle slope equals its measured throughput.
C10_ShapedScenario ==
    (cbs_pc = "done" /\ ShapedPattern) =>
        /\ tc.analyzed
        /\ tc.is_shaped
        /\ tc.estimated_idle_slope = tc.measured_bps
        /\ tc.measured_bps = Rat(tc.total_bytes * 8, tc.last_ts - tc.first_ts)

C10_Witness ==
    /\ cbs_pc = "done"
    /\ ShapedPattern
    /\ tc.burst_count = Scenario2MinBursts
    /\ impl = "cbs-estimator"

\* C11: a class with fewer than 10 observations gets no estimate (analyze_cbs
\* writes nothing) and no row in the report.
C11_NoRowBelowTen ==
    (cbs_pc = "reported" /\ tc.packet_count < 10) =>
        /\ ~tc.analyzed
        /\ report = <<>>

\* the gap from burst k to burst k + 1, in microseconds
InterBurstGapUs(k) == Sub64(tc.bursts[k + 1].start_ns, tc.bursts[k].end_ns) \div 1000

\* the mean inter-burst gap exceeds 100 us (no sum is needed when the gaps
\* are all above or all at most 100 us)
MeanGapAbove100 ==
    LET gaps == 1..(tc.burst_count - 1)
    IN /\ tc.burst_count > 1
       /\ IF \A k \in gaps : InterBurstGapUs(k) > 100 THEN TRUE
          ELSE IF \A k \in gaps : InterBurstGapUs(k) <= 100 THEN FALSE
          ELSE SumSeq([k \in gaps |-> InterBurstGapUs(k)]) > 100 * (tc.burst_count - 1)

NoClassSearched ==
    \A t \in Classes : tc_data[t].packet_count < CYCLE_MIN_PACKETS_TSN

CycleDetected == tas_pc # "detect_cycle" /\ tas_pc # "off"

\* C13: when a cycle override greater than 0 is given, the cycle detector of
\* either program returns exactly the override (in ns), whatever the stores
\* hold, also when no class has enough observations.
C13_OverrideWins ==
    (CycleDetected /\ OverridePresent(config.expected_cycle_ms)) =>
        cycle_ns * config.expected_cycle_ms.den
            = config.expected_cycle_ms.num * 1000000

C13_Witness ==
    /\ CycleDetected
    /\ impl = "tas-estimator"
    /\ config.expected_cycle_ms = Rat(5, 2)
    /\ cycle_ns = 2500000
    /\ ~NoClassSearched

\* ------------------------------------------------------------ C14
NoClassHas100 ==
    \A t \in Classes : tc_data[t].packet_count < CYCLE_MIN_PACKETS_TAS

NothingBuilt ==
    /\ estimated_gcl = <<>>
    /\ \A t \in Classes :
           /\ tc_data[t].histogram_size = 0
           /\ tc_data[t].histogram = <<>>
           /\ tc_data[t].windows = <<>>

\* C14: in tas-estimator, without an override and with no class holding 100
\* observations, detect_cycle_time returns 0 and the run ends with the error
\* status before any histogram, window or GCL entry is built.
C14_NoCycleFails ==
    (/\ impl = "tas-estimator"
     /\ CycleDetected
     /\ ~OverridePresent(config.expected_cycle_ms)
     /\ NoClassHas100) =>
        /\ cycle_ns = 0
        /\ tas_pc = "failed"
        /\ NothingBuilt

C14_Witness ==
    /\ impl = "tas-estimator"
    /\ tas_pc = "failed"
    /\ ~OverridePresent(config.expected_cycle_ms)
    /\ tc_data[0].packet_count = 99
    /\ tc_data[1].packet_count = 12

\* ------------------------------------------------------------ C15
StoredScenario3 ==
    /\ tc_data[0].packet_count = Scenario3Periods
    /\ \A t \in Classes \ {0} : tc_data[t].packet_count = 0
    /\ \A i \in 1..Scenario3Periods :
           LET off == Sub64(tc_data[0].packets[i].ts_ns, tc_data[0].first_ts)
           IN /\ off \div 10000000 = i - 1
              /\ off % 10000000 < 2000000

\* C15: with one class whose observations all fall in the first 20% of each
\* 10 ms period over 200 periods, and no override, detect_cycle_time returns
\* the 10 ms candidate.
C15_TenMsDetected ==
    (/\ impl = "tas-estimator"
     /\ CycleDetected
     /\ ~OverridePresent(config.expected_cycle_ms)
     /\ StoredScenario3) =>
        cycle_ns = 10000000

\* ------------------------------------------------------------ C16
StoreFull(c) == tc_data[c].packet_count = MaxPackets

\* the frame handed to the callback in this step
Delivered == Head(pending)

\* C16: once the store of a class holds MAX_PACKETS observations, a further
\* observation of that class leaves its store unchanged (observations,
\* packet count, byte total, first and last timestamp), and an observation of
\* another class is still stored.
C16_FullStoreUnchanged ==
    [][pending # <<>> =>
          /\ StoreFull(Delivered.pcp) =>
                 tc_data'[Delivered.pcp] = tc_data[Delivered.pcp]
          /\ \A c \in Classes :
                 (StoreFull(c) /\ Delivered.pcp # c /\ ~StoreFull(Delivered.pcp)) =>
                     LET before == tc_data[Delivered.pcp]
                         after == tc_data'[Delivered.pcp]
                     IN /\ after.packet_count = before.packet_count + 1
                        /\ after.packets[after.packet_count].ts_ns = TsNs(Delivered)
                        /\ after.last_ts = TsNs(Delivered)]_vars

\* frames 1 and 2 were of class 0, whose store was full, and frame 3 of class 1
C16_Witness ==
    /\ pending = <<>>
    /\ StoreFull(0)
    /\ tc_data[0] = FilledStore(MaxPackets)
    /\ tc_data[1].packet_count = 1
    /\ tc_data[1].last_ts = TsNs(LateFrame(3, 1))

\* ------------------------------------------------------------ C17
\* a successful send of class c whose count is still to be written
TxInFlight(c) == IF tx_pc \in {"lock", "count"} /\ TxClass = c THEN 1 ELSE 0

\* a frame of class c handed to the callback and still to be stored
RxInFlight(c) == IF rx_pc \in {"cb_lock", "cb_store"} /\ rx_hdr.pcp = c THEN 1 ELSE 0

\* C17: under every interleaving of the capture thread and the transmit
\* thread no update of a sample store is lost: tx_count of a class is the
\* number of successful sends of the class and packet_count the number of
\* observations accepted for it (those still on their way to the store
\* counted apart).
C17_NoLostUpdate ==
    main_pc # "off" =>
        \A c \in Classes :
            /\ tc_data[c].tx_count + TxInFlight(c) = hist.sent_ok[c]
            /\ tc_data[c].packet_count + RxInFlight(c) = hist.delivered[c]
            /\ Len(tc_data[c].packets) = tc_data[c].packet_count

\* both threads have written to the store of class 0, and the transmit
\* thread had to wait for the mutex
C17_Witness ==
    /\ tx_pc = "lock"
    /\ data_mutex = "rx"
    /\ TxClass = 1
    /\ tc_data[0].tx_count = 1
    /\ tc_data[0].packet_count = 1
    /\ rx_pc = "cb_store"
    /\ rx_hdr.pcp = 0

\* ------------------------------------------------------------ C18
AnalysisBegun == main_pc \in {"analyze", "report", "exit"}

\* the fields of the stores that the threads write
SampleFields(data) ==
    [c \in Classes |->
        <<data[c].packets, data[c].packet_count, data[c].total_bytes,
          data[c].first_ts, data[c].last_ts, data[c].tx_count>>]

\* C18: the analysis starts only after the stop flag is set and both threads
\* have terminated, and from then on no sample store is written.
C18_AnalysisAfterThreads ==
    [][/\ AnalysisBegun' => (running' = 0 /\ tx_pc' = "done" /\ rx_pc' = "done")
       /\ AnalysisBegun => SampleFields(tc_data') = SampleFields(tc_data)]_vars

C18_Witness ==
    /\ main_pc = "exit"
    /\ impl = "tsn-verify"
    /\ tc_data[0].packet_count = 2
    /\ tc_data[0].burst_count >= 1
    /\ tc_data[0].tx_count = 1

\* ------------------------------------------------------------ C19
ThreadsTerminated == tx_pc = "done" /\ rx_pc = "done"

\* C19: once running is 0 both threads leave their loops and terminate, and
\* the joins of main complete (every thread that can run does run, and
\* every pcap_dispatch call returns).
C19_ThreadsTerminate ==
    (running = 0) ~> (ThreadsTerminated /\ AnalysisBegun)

C19_Witness ==
    /\ running = 0
    /\ ThreadsTerminated
    /\ main_pc = "analyze"
    /\ rx_handle = "closed"
    /\ hist.sends = MaxSends
    /\ hist.frames = MaxFrames

\* ------------------------------------------------------------ C20
\* C20: build_gcl never writes an entry whose duration is 0; events that
\* share a timestamp produce no entry between them.
C20_NoZeroDuration ==
    GclDone => \A k \in 1..Len(estimated_gcl) : estimated_gcl[k].time_ns > 0


\* ------------------------------------------------------------ C21
\* pcap_open_live returned NULL and the capture thread has returned
CaptureOpenFailed == rx_pc = "done" /\ rx_handle = "null"

\* C21: when the capture device cannot be opened the session ends with a
\* failure status: main neither runs the analysis pass (after which it stands
\* before the report) nor prints the report and returns 0.
C21_OpenFailureEndsSession ==
    CaptureOpenFailed => main_pc \notin {"report", "exit"}

\* ------------------------------------------------------------ C28
\* C28: pcap_breakloop is only ever called on a handle that is still open,
\* under every interleaving of the signal with the capture loop, pcap_close
\* and the analysis and report of main.
C28_BreakloopOnOpenHandle == "closed" \notin hist.breakloop


\* ------------------------------------------------------------ C22
\* cycle detection has run and found no cycle
NoCycleFound == CycleDetected /\ cycle_ns = 0

\* C22: in tas-estimator and in tsn-verify, when cycle detection finds no
\* cycle the run fails and no TAS result report is emitted.
C22_NoCycleNoTasReport ==
    NoCycleFound => tas_pc # "reported"


\* ------------------------------------------------------------ C23
\* the gap detect_bursts computes before observation i (1-based, i >= 2)
GapBefore(t, i) == Sub64(t.packets[i].ts_ns, t.packets[i - 1].ts_ns)

\* observation 1 and every observation more than 500000 ns after its
\* predecessor, in order
GapStarts(t) ==
    SelectSeq([i \in 1..t.packet_count |-> i],
              LAMBDA i : i = 1 \/ GapBefore(t, i) > 500000)

\* the first n elements of s
FirstN(s, n) == IF Len(s) > n THEN SubSeq(s, 1, n) ELSE s

\* the bursts of tc are those that start at the observations starts: each
\* starts at its observation, a closed burst ends at the observation before
\* the next start and counts the observations from its start to there, and
\* the final burst ends at the last observation
BurstsStartAt(starts) ==
    /\ tc.burst_count = Len(starts)
    /\ Len(tc.bursts) = Len(starts)
    /\ \A k \in 1..Len(starts) :
           /\ tc.bursts[k].start_ns = tc.packets[starts[k]].ts_ns
           /\ IF k < Len(starts)
              THEN /\ tc.bursts[k].end_ns = tc.packets[starts[k + 1] - 1].ts_ns
                   /\ tc.bursts[k].packets = starts[k + 1] - starts[k]
              ELSE tc.bursts[k].end_ns = tc.packets[tc.packet_count].ts_ns

NoObservedDuration ==
    /\ tc.packet_count >= 10
    /\ Sub64(tc.last_ts, tc.first_ts) <= 0

\* C24: a class with at least 10 observations and no observed duration gets
\* no estimate, and the report holds no row that presents its zero
\* throughput, idle slope and shaped fields.
C24_NoRowWithoutDuration ==
    (cbs_pc = "reported" /\ NoObservedDuration) =>
        /\ ~tc.analyzed
        /\ report = <<>>


\* ------------------------------------------------------------ C25
\* 0.3 times the mean bin occupancy (packet_count / histogram_size),
\* truncated, at least 1
ThirtyPercentOfMean(t) ==
    LET thr == (t.packet_count * 3) \div (t.histogram_size * 10)
    IN IF thr < 1 THEN 1 ELSE thr

\* bin i (0-based) of class t lies in one of the windows detect_windows left
BinInWindow(t, i) ==
    LET bin_size == cycle_ns \div t.histogram_size
    IN \E w \in 1..Len(t.windows) :
           /\ t.windows[w].start_offset_ns <= i * bin_size
           /\ i * bin_size < t.windows[w].start_offset_ns + t.windows[w].duration_ns

\* C25: the presence threshold of detect_windows is 0.3 times the mean bin
\* occupancy, truncated and raised to at least 1, and a bin is gate-open (in
\* a window) exactly when its count is at or above that threshold.
C25_ThresholdIsThirtyPercent ==
    \A t \in Classes :
        WindowsDetected(t) =>
            \A i \in 0..(tc_data[t].histogram_size - 1) :
                BinInWindow(tc_data[t], i)
                    <=> tc_data[t].histogram[i + 1] >= ThirtyPercentOfMean(tc_data[t])


\* ------------------------------------------------------------ C26
\* stores of fewer than 100 observations
SmallStores ==
    {EmptyTasTc, PeriodicStore(12, 1000, 0, 1), PeriodicStore(99, 1000, 0, 1),
     PeriodicStore(99, 10000, 137, 2000)}

\* the stores of another run: every class below 100 observations holds x
\* instead, the other classes are the same
OtherRun(data, x) ==
    [t \in DOMAIN data |->
        IF data[t].packet_count < CYCLE_MIN_PACKETS_TAS THEN x ELSE data[t]]

\* C26: the cycle detect_cycle_time returns does not depend on the classes
\* below 100 observations: a run that differs from this one only in those
\* classes (each still below 100) returns the same cycle.
C26_SmallClassesIgnored ==
    (impl = "tas-estimator" /\ tas_pc \in {"failed", "histogram"} /\ tas_t = 0) =>
        \A x \in SmallStores :
            DetectCycleTime(OtherRun(tc_data, x), config.expected_cycle_ms) = cycle_ns

\* class 0 took part in the search, class 1 with 12 observations did not
C26_Witness ==
    /\ impl = "tas-estimator"
    /\ tas_pc = "histogram"
    /\ ~OverridePresent(config.expected_cycle_ms)
    /\ tc_data[0].packet_count = Scenario3Periods
    /\ tc_data[1].packet_count = 12
    /\ cycle_ns = 10000000


\* ------------------------------------------------------------ C29
\* C29: without an override, detect_cycle_time returns one of its candidate
\* cycles (never 0) whenever a class holds 100 observations or more, and 0
\* only when no class does.
C29_CandidateWhenEnoughData ==
    (/\ impl = "tas-estimator"
     /\ CycleDetected
     /\ ~OverridePresent(config.expected_cycle_ms)) =>
        IF NoClassHas100 THEN cycle_ns = 0
        ELSE \E c \in 1..Len(CandidatesTas) : cycle_ns = CandidatesTas[c]


\* ------------------------------------------------------------ C27
\* the windows of class t are in order, inside the cycle, and between two
\* consecutive windows lies a bin below the threshold
WindowsWellFormed(t) ==
    LET w == t.windows
        bin_size == cycle_ns \div t.histogram_size
    IN /\ Len(w) <= MAX_WINDOWS
       /\ \A k \in 1..Len(w) :
              /\ w[k].start_offset_ns < cycle_ns
              /\ w[k].duration_ns > 0
              /\ w[k].start_offset_ns + w[k].duration_ns <= cycle_ns
              /\ k < Len(w) =>
                     /\ w[k].start_offset_ns + w[k].duration_ns <= w[k + 1].start_offset_ns
                     /\ \E i \in 0..(t.histogram_size - 1) :
                            /\ ~BinOpen(t, i)
                            /\ w[k].start_offset_ns + w[k].duration_ns <= i * bin_size
                            /\ (i + 1) * bin_size <= w[k + 1].start_offset_ns

C30_AggregatesAgree ==
    tc.packet_count > 0 =>
        /\ tc.packet_count <= MaxPackets
        /\ tc.packet_count = Len(tc.packets)
        /\ tc.total_bytes = StoredBytes
        /\ tc.first_ts = tc.packets[1].ts_ns
        /\ tc.last_ts = tc.packets[tc.packet_count].ts_ns

============================================================================
